---- MODULE Spec2Model ----
(***************************************************************************)
(* Donation dashboard data pipeline (src/src/load_data.ts):                *)
(*   d3.tsv rows -> loadData (parse, sort) -> processEntries (cumulative   *)
(*   sums, trend projection).                                              *)
(*                                                                         *)
(* JavaScript values are modelled as records [kind, sign, m, e]: a number  *)
(* is the IEEE-754 double sign * m * 2^e, NaN and undefined are their own  *)
(* kinds.  Arithmetic rounds to nearest, ties to even, as the program's.   *)
(* JavaScript strings are sequences of one-character strings.              *)
(* Entry objects live in a heap (a sequence of records); arrays hold       *)
(* references (heap positions), so aliasing and in-place writes are        *)
(* visible.                                                                *)
(***************************************************************************)
EXTENDS Integers, Sequences, FiniteSets, TLC

\* ------------------------------------------------------------------------
\* Bounds of the model
\* ------------------------------------------------------------------------

\* largest number of rows in the TSV table
MaxRows == 4

\* ------------------------------------------------------------------------
\* Natural numbers of any size (the integers of the checker are 32 bits
\* wide, the significand of a double has 53): sequences of limbs, least
\* significant first, without leading zero limbs
\* ------------------------------------------------------------------------

\* a limb holds 15 bits
LimbBits == 15

LimbBase == 32768

Abs(i) == IF i < 0 THEN -i ELSE i

RECURSIVE Pow2(_)
Pow2(k) == IF k = 0 THEN 1 ELSE 2 * Pow2(k - 1)

RECURSIVE SmallBitLen(_)
SmallBitLen(x) == IF x = 0 THEN 0 ELSE 1 + SmallBitLen(x \div 2)

Rest(a) == IF a = <<>> THEN <<>> ELSE Tail(a)

Low(a) == IF a = <<>> THEN 0 ELSE a[1]

RECURSIVE BigOf(_)
BigOf(n) == IF n = 0 THEN <<>> ELSE <<n % LimbBase>> \o BigOf(n \div LimbBase)

RECURSIVE SmallOf(_)
SmallOf(a) == IF a = <<>> THEN 0 ELSE a[1] + LimbBase * SmallOf(Tail(a))

RECURSIVE BigTrim(_)
BigTrim(a) ==
    IF a # <<>> /\ a[Len(a)] = 0 THEN BigTrim(SubSeq(a, 1, Len(a) - 1)) ELSE a

RECURSIVE BigAddC(_, _, _)
BigAddC(a, b, c) ==
    IF a = <<>> /\ b = <<>> THEN (IF c = 0 THEN <<>> ELSE <<c>>)
    ELSE LET x == Low(a) + Low(b) + c
         IN  <<x % LimbBase>> \o BigAddC(Rest(a), Rest(b), x \div LimbBase)

BigAdd(a, b) == BigAddC(a, b, 0)

\* a - b - c for a >= b + c, before trimming
RECURSIVE BigSubC(_, _, _)
BigSubC(a, b, c) ==
    IF a = <<>> THEN <<>>
    ELSE LET x == a[1] - Low(b) - c
         IN  <<(x + LimbBase) % LimbBase>>
                 \o BigSubC(Tail(a), Rest(b), IF x < 0 THEN 1 ELSE 0)

BigSub(a, b) == BigTrim(BigSubC(a, b, 0))

\* -1, 0, 1 as a < b, a = b, a > b
RECURSIVE BigCmp(_, _)
BigCmp(a, b) ==
    IF Len(a) # Len(b) THEN (IF Len(a) < Len(b) THEN -1 ELSE 1)
    ELSE IF a = <<>> THEN 0
    ELSE IF a[Len(a)] # b[Len(b)] THEN (IF a[Len(a)] < b[Len(b)] THEN -1 ELSE 1)
    ELSE BigCmp(BigTrim(SubSeq(a, 1, Len(a) - 1)), BigTrim(SubSeq(b, 1, Len(b) - 1)))

\* a * k + c for one limb k
RECURSIVE BigMulSmall(_, _, _)
BigMulSmall(a, k, c) ==
    IF a = <<>> THEN (IF c = 0 THEN <<>> ELSE <<c>>)
    ELSE LET x == a[1] * k + c
         IN  <<x % LimbBase>> \o BigMulSmall(Tail(a), k, x \div LimbBase)

RECURSIVE BigMul(_, _)
BigMul(a, b) ==
    IF a = <<>> \/ b = <<>> THEN <<>>
    ELSE BigTrim(BigAdd(BigMulSmall(a, b[1], 0), <<0>> \o BigMul(a, Tail(b))))

\* the quotient of a by one limb k, the division starting with remainder r
RECURSIVE BigDivSmall(_, _, _)
BigDivSmall(a, k, r) ==
    IF a = <<>> THEN <<>>
    ELSE LET x == r * LimbBase + a[Len(a)]
         IN  Append(BigDivSmall(SubSeq(a, 1, Len(a) - 1), k, x % k), x \div k)

\* a * 2^n
BigShl(a, n) ==
    IF a = <<>> THEN <<>>
    ELSE [i \in 1..(n \div LimbBits) |-> 0] \o BigMulSmall(a, Pow2(n % LimbBits), 0)

\* a \div 2^n
BigShr(a, n) ==
    IF Len(a) <= n \div LimbBits THEN <<>>
    ELSE BigTrim(BigDivSmall(SubSeq(a, n \div LimbBits + 1, Len(a)),
                             Pow2(n % LimbBits), 0))

BigBitLen(a) ==
    IF a = <<>> THEN 0 ELSE LimbBits * (Len(a) - 1) + SmallBitLen(a[Len(a)])

BigIsOdd(a) == a # <<>> /\ a[1] % 2 = 1

\* number of zero bits at the low end of x # 0
RECURSIVE SmallTrailingZeros(_)
SmallTrailingZeros(x) == IF x % 2 = 1 THEN 0 ELSE 1 + SmallTrailingZeros(x \div 2)

\* number of zero bits at the low end of a # 0
RECURSIVE BigTrailingZeros(_)
BigTrailingZeros(a) ==
    IF a[1] = 0 THEN LimbBits + BigTrailingZeros(Tail(a))
    ELSE SmallTrailingZeros(a[1])

\* the remainder of a by one limb k
RECURSIVE BigModSmall(_, _)
BigModSmall(a, k) ==
    IF a = <<>> THEN 0 ELSE (BigModSmall(Tail(a), k) * LimbBase + a[1]) % k

\* the largest d in lo..hi with d * b <= r
RECURSIVE BigQuotDigit(_, _, _, _)
BigQuotDigit(r, b, lo, hi) ==
    IF lo = hi THEN lo
    ELSE LET mid == (lo + hi + 1) \div 2
         IN  IF BigCmp(BigMulSmall(b, mid, 0), r) <= 0
             THEN BigQuotDigit(r, b, mid, hi)
             ELSE BigQuotDigit(r, b, lo, mid - 1)

\* long division of the limbs n and above of a by b # 0, a limb at a time:
\* [q, r]
RECURSIVE BigDivModFrom(_, _, _)
BigDivModFrom(a, b, n) ==
    IF n > Len(a) THEN [q |-> <<>>, r |-> <<>>]
    ELSE LET up == BigDivModFrom(a, b, n + 1)
             r2 == BigTrim(<<a[n]>> \o up.r)
             d  == BigQuotDigit(r2, b, 0, LimbBase - 1)
         IN  [q |-> BigTrim(<<d>> \o up.q),
              r |-> BigSub(r2, BigTrim(BigMulSmall(b, d, 0)))]

\* quotient and remainder of a by b # 0
BigDivMod(a, b) ==
    IF Len(b) = 1
    THEN [q |-> BigTrim(BigDivSmall(a, b[1], 0)), r |-> BigOf(BigModSmall(a, b[1]))]
    ELSE BigDivModFrom(a, b, 1)

\* ------------------------------------------------------------------------
\* JavaScript numbers: IEEE-754 doubles.  A finite number is
\* sign * m * 2^e with m odd (or m = 0, e = 0), m below 2^53; every
\* arithmetic result is rounded to the nearest such number, ties to even.
\* Exponent overflow, subnormals and -0 are outside the amounts modelled.
\* ------------------------------------------------------------------------

\* bits of the significand of a double
MantissaBits == 53

NaN == [kind |-> "NaN", sign |-> 1, m |-> <<>>, e |-> 0]

Undefined == [kind |-> "undefined", sign |-> 1, m |-> <<>>, e |-> 0]

IsNumber(a) == a.kind = "number"

\* the number sign * m * 2^e, which needs no rounding
Exact(sign, m, e) ==
    IF m = <<>> THEN [kind |-> "number", sign |-> 1, m |-> <<>>, e |-> 0]
    ELSE LET z == BigTrailingZeros(m)
         IN  [kind |-> "number", sign |-> sign, m |-> BigShr(m, z), e |-> e + z]

\* the double nearest to sign * (m + t) * 2^e, where 0 < t < 1 when sticky
\* and t = 0 otherwise (a sticky m has more than MantissaBits + 1 bits)
Round(sign, m, e, sticky) ==
    IF BigBitLen(m) <= MantissaBits THEN Exact(sign, m, e)
    ELSE LET s    == BigBitLen(m) - MantissaBits
             q    == BigShr(m, s)
             rem  == BigSub(m, BigShl(q, s))
             c    == BigCmp(rem, BigShl(<<1>>, s - 1))
             up   == c > 0 \/ (c = 0 /\ (sticky \/ BigIsOdd(q)))
         IN  Exact(sign, IF up THEN BigAdd(q, <<1>>) ELSE q, e + s)

Num(i) == Exact(IF i < 0 THEN -1 ELSE 1, BigOf(Abs(i)), 0)

\* -1, 0, 1 as a < b, a = b, a > b, for numbers a and b
Compare(a, b) ==
    LET lo == IF a.e < b.e THEN a.e ELSE b.e
        ma == BigShl(a.m, a.e - lo)
        mb == BigShl(b.m, b.e - lo)
    IN  IF a.sign # b.sign /\ (a.m # <<>> \/ b.m # <<>>)
        THEN (IF a.m = <<>> THEN -b.sign ELSE a.sign)
        ELSE a.sign * BigCmp(ma, mb)

\* a + b
Plus(a, b) ==
    IF IsNumber(a) /\ IsNumber(b)
    THEN LET lo == IF a.e < b.e THEN a.e ELSE b.e
             ma == BigShl(a.m, a.e - lo)
             mb == BigShl(b.m, b.e - lo)
         IN  IF a.sign = b.sign THEN Round(a.sign, BigAdd(ma, mb), lo, FALSE)
             ELSE IF BigCmp(ma, mb) >= 0
                  THEN Round(a.sign, BigSub(ma, mb), lo, FALSE)
                  ELSE Round(b.sign, BigSub(mb, ma), lo, FALSE)
    ELSE NaN

\* a - b
Minus(a, b) ==
    IF IsNumber(a) /\ IsNumber(b)
    THEN Plus(a, [b EXCEPT !.sign = IF b.m = <<>> THEN 1 ELSE -b.sign])
    ELSE NaN

\* a * b
Times(a, b) ==
    IF IsNumber(a) /\ IsNumber(b)
    THEN Round(a.sign * b.sign, BigMul(a.m, b.m), a.e + b.e, FALSE)
    ELSE NaN

\* a / b; 0/0 is NaN.  x/0 with x # 0 would be an Infinity: every divisor of
\* the program is an array length whose dividend is 0 when the array is
\* empty, so that case is never evaluated and is given as NaN here.
Div(a, b) ==
    IF IsNumber(a) /\ IsNumber(b) /\ b.m # <<>>
    THEN LET wanted == MantissaBits + 2 + BigBitLen(b.m) - BigBitLen(a.m)
             s      == IF wanted > 0 THEN wanted ELSE 0
             dm     == BigDivMod(BigShl(a.m, s), b.m)
         IN  Round(a.sign * b.sign, dm.q, a.e - b.e - s, dm.r # <<>>)
    ELSE NaN

\* a > b (false when either side is not a number)
Gt(a, b) == IsNumber(a) /\ IsNumber(b) /\ Compare(a, b) > 0

\* a >= b (false when either side is not a number)
Gte(a, b) == IsNumber(a) /\ IsNumber(b) /\ Compare(a, b) >= 0

\* ------------------------------------------------------------------------
\* JavaScript strings, parseInt(s, 10), parseFloat(s), split
\* ------------------------------------------------------------------------

DigitChars == {"0", "1", "2", "3", "4", "5", "6", "7", "8", "9"}

DigitVal(c) ==
    CASE c = "0" -> 0 [] c = "1" -> 1 [] c = "2" -> 2 [] c = "3" -> 3
      [] c = "4" -> 4 [] c = "5" -> 5 [] c = "6" -> 6 [] c = "7" -> 7
      [] c = "8" -> 8 [] c = "9" -> 9

\* String(undefined), what parseInt/parseFloat see for an absent value
UndefinedStr == <<"u", "n", "d", "e", "f", "i", "n", "e", "d">>

\* the value undefined where a string is expected (a column the row does
\* not have): no string, as no string has an element longer than a character
Absent == <<"undefined">>

\* the string a conversion works on
ToStr(v) == IF v = Absent THEN UndefinedStr ELSE v

RECURSIVE TrimStart(_)
TrimStart(s) ==
    IF s # <<>> /\ s[1] = " " THEN TrimStart(Tail(s)) ELSE s

\* length of the longest prefix of s made of decimal digits
DigitPrefixLen(s) ==
    CHOOSE k \in 0..Len(s) :
        /\ \A i \in 1..k : s[i] \in DigitChars
        /\ (k = Len(s) \/ s[k + 1] \notin DigitChars)

RECURSIVE DigitsValue(_)
DigitsValue(s) ==
    IF s = <<>> THEN 0 ELSE 10 * DigitsValue(SubSeq(s, 1, Len(s) - 1)) + DigitVal(s[Len(s)])

RECURSIVE Pow10(_)
Pow10(k) == IF k = 0 THEN 1 ELSE 10 * Pow10(k - 1)

\* parseInt(s, 10): leading blanks, an optional sign, the leading digits;
\* NaN when there is no digit
parseInt(s) ==
    LET t    == TrimStart(s)
        neg  == t # <<>> /\ t[1] = "-"
        body == IF t # <<>> /\ t[1] \in {"-", "+"} THEN Tail(t) ELSE t
        k    == DigitPrefixLen(body)
        v    == DigitsValue(SubSeq(body, 1, k))
    IN  IF k = 0 THEN NaN ELSE Num(IF neg THEN -v ELSE v)

\* parseFloat(s): as parseInt, with an optional fraction after the digits
\* (exponents and "Infinity" do not occur in the modelled tables)
parseFloat(s) ==
    LET t     == TrimStart(s)
        neg   == t # <<>> /\ t[1] = "-"
        body  == IF t # <<>> /\ t[1] \in {"-", "+"} THEN Tail(t) ELSE t
        k     == DigitPrefixLen(body)
        rest  == SubSeq(body, k + 1, Len(body))
        frac  == IF rest # <<>> /\ rest[1] = "." THEN Tail(rest) ELSE <<>>
        f     == DigitPrefixLen(frac)
        whole == DigitsValue(SubSeq(body, 1, k)) * Pow10(f)
                     + DigitsValue(SubSeq(frac, 1, f))
    IN  IF k = 0 /\ f = 0 THEN NaN
        ELSE Div(Num(IF neg THEN -whole ELSE whole), Num(Pow10(f)))

\* s.split(sep) for a one-character separator
RECURSIVE split(_, _)
split(s, sep) ==
    IF \E i \in 1..Len(s) : s[i] = sep
    THEN LET i == CHOOSE j \in 1..Len(s) :
                      s[j] = sep /\ \A l \in 1..(j - 1) : s[l] # sep
         IN  <<SubSeq(s, 1, i - 1)>> \o split(SubSeq(s, i + 1, Len(s)), sep)
    ELSE <<s>>

\* a[i] of a JavaScript array of strings (0-based i), as the string a
\* conversion sees: an index past the end reads undefined
At(a, i) == IF i + 1 <= Len(a) THEN a[i + 1] ELSE UndefinedStr

\* ------------------------------------------------------------------------
\* Arrays
\* ------------------------------------------------------------------------

Range(s) == {s[i] : i \in 1..Len(s)}

\* vals.reduce((acc, v) => acc + v, 0)
RECURSIVE reduceSum(_)
reduceSum(vals) ==
    IF vals = <<>> THEN Num(0)
    ELSE Plus(reduceSum(SubSeq(vals, 1, Len(vals) - 1)), vals[Len(vals)])

\* s.slice(-k)
sliceLast(s, k) ==
    IF Len(s) <= k THEN s ELSE SubSeq(s, Len(s) - k + 1, Len(s))

\* (a, b) => a.index - b.index, on references into heap h
compareIndex(h, a, b) == Minus(h[a].index, h[b].index)

\* an unstable sort: an entry is moved in front of the entries of the same
\* index that came before it
RECURSIVE insertSortedTiesFirst(_, _, _)
insertSortedTiesFirst(h, s, x) ==
    IF s = <<>> THEN <<x>>
    ELSE IF Gte(compareIndex(h, s[Len(s)], x), Num(0))
         THEN Append(insertSortedTiesFirst(h, SubSeq(s, 1, Len(s) - 1), x), s[Len(s)])
         ELSE Append(s, x)

\* Array.prototype.sort is stable; a comparator result that is not a
\* positive number (0, negative, NaN) leaves a before b.
RECURSIVE insertSorted(_, _, _)
insertSorted(h, s, x) ==
    IF s = <<>> THEN <<x>>
    ELSE IF Gt(compareIndex(h, s[Len(s)], x), Num(0))
         THEN Append(insertSorted(h, SubSeq(s, 1, Len(s) - 1), x), s[Len(s)])
         ELSE Append(s, x)

\* the first i elements of s, sorted
RECURSIVE sortPrefix(_, _, _)
sortPrefix(h, s, i) ==
    IF i = 0 THEN <<>> ELSE insertSorted(h, sortPrefix(h, s, i - 1), s[i])

\* the array left as it arrived (no sort)
sortByIndexSkipped(h, s) == s

\* entries.sort((a, b) => a.index - b.index)
sortByIndex(h, s) == sortPrefix(h, s, Len(s))

\* ------------------------------------------------------------------------
\* The TSV table handed over by d3.tsv
\* ------------------------------------------------------------------------

Str2024_12 == <<"2", "0", "2", "4", "-", "1", "2">>
Str2025_01 == <<"2", "0", "2", "5", "-", "0", "1">>
Str2025_02 == <<"2", "0", "2", "5", "-", "0", "2">>
Str2025_03 == <<"2", "0", "2", "5", "-", "0", "3">>

Str0    == <<"0">>
Str50   == <<"5", "0">>
Str100  == <<"1", "0", "0">>
Str200  == <<"2", "0", "0">>
Str600  == <<"6", "0", "0">>
Str800  == <<"8", "0", "0">>
Str900  == <<"9", "0", "0">>
Str1000 == <<"1", "0", "0", "0">>
Str1200 == <<"1", "2", "0", "0">>

Row(m, n, p, r) == [month |-> m, needed |-> n, pledged |-> p, received |-> r]

\* the rows a table is made of: the three sample rows of the test suite
\* (2025-01..03), a pledge-only December of the year before, and a second
\* February, without any donation
RowPool ==
    { Row(Str2025_01, Str1000, Str200, Str600),
      Row(Str2025_02, Str1000, Str0,   Str800),
      Row(Str2025_03, Str1000, Str100, Str900),
      Row(Str2024_12, Str1200, Str50,  Str0),
      Row(Str2025_02, Str1200, Str0,   Str0) }

\* every table of at most MaxRows rows, in every order
Tables == UNION {[1..n -> RowPool] : n \in 0..MaxRows}

\* what `await d3.tsv(file)` does: resolves with the rows, or rejects
TsvOutcomes ==
    {[ok |-> FALSE, rows |-> <<>>]} \cup {[ok |-> TRUE, rows |-> t] : t \in Tables}

\* ------------------------------------------------------------------------
\* loadData
\* ------------------------------------------------------------------------

\* hasDonation: received > 0 only
hasDonationReceivedOnly(received, pledged) == Gt(received, Num(0))

\* hasDonation: received > 0 || pledged > 0
hasDonationOf(received, pledged) == Gt(received, Num(0)) \/ Gt(pledged, Num(0))

\* donated: the received amount alone
donatedReceivedOnly(pledged, received) == received

\* donated = pledged + received
donatedOf(pledged, received) == Plus(pledged, received)

\* the index without the parentheses: year - 2000 * 12 + month
indexOfNoParens(year, month) == Plus(Minus(year, Times(Num(2000), Num(12))), month)

\* the index counted from 0, as a column: (year - 2000) * 12 + month - 1
indexOfZeroBased(year, month) ==
    Minus(Plus(Times(Minus(year, Num(2000)), Num(12)), month), Num(1))

\* (year - 2000) * 12 + month
indexOf(year, month) == Plus(Times(Minus(year, Num(2000)), Num(12)), month)

\* the total of a fresh entry set to the entry's own amount
initialSumOwnAmount(amount) == amount

\* sumDonated: 0, sumNeeded: 0 in the object literal, whatever the amount
initialSum(amount) == Num(0)

\* the callback of data.map in loadData: one row to one entry object
parseRow(entry) ==
    LET date     == split(entry.month, "-")
        year     == parseInt(At(date, 0))
        month    == parseInt(At(date, 1))
        index    == indexOf(year, month)
        needed   == parseFloat(ToStr(entry.needed))
        pledged  == parseFloat(ToStr(entry.pledged))
        received == parseFloat(ToStr(entry.received))
        donated  == donatedOf(pledged, received)
    IN  [ index                 |-> index,
          year                  |-> year,
          donated               |-> donated,
          needed                |-> needed,
          pledged               |-> pledged,
          received              |-> received,
          hasDonation           |-> hasDonationOf(received, pledged),
          sumDonated            |-> initialSum(donated),
          sumNeeded             |-> initialSum(needed),
          sumProjectedDonations |-> Undefined ]

\* the rows once fetched: data.map(...) and entries.sort(...).
\* entry.month.split of a row without month is a TypeError outside the try
\* block, which rejects the promise; otherwise the entry objects are
\* allocated in row order, then the array of references is sorted
loadRows(h, data) ==
    IF \E i \in 1..Len(data) : data[i].month = Absent
    THEN [heap |-> h, result |-> <<>>, threw |-> TRUE]
    ELSE LET h1      == h \o [i \in 1..Len(data) |-> parseRow(data[i])]
             entries == [i \in 1..Len(data) |-> Len(h) + i]
         IN  [heap |-> h1, result |-> sortByIndex(h1, entries), threw |-> FALSE]

\* loadData without the try block: a failed fetch rejects the promise
loadDataUncaught(h, table) ==
    IF ~table.ok
    THEN [heap |-> h, result |-> <<>>, threw |-> TRUE]
    ELSE loadRows(h, table.rows)

\* loadData(file) on heap h: [heap, result, threw]; a failed fetch is caught
\* and gives []
loadData(h, table) ==
    IF ~table.ok
    THEN [heap |-> h, result |-> <<>>, threw |-> FALSE]
    ELSE loadRows(h, table.rows)

\* ------------------------------------------------------------------------
\* processEntries
\* ------------------------------------------------------------------------

\* size of the projection window: .slice(-3)
WindowSize == 3

\* the entry as copied by { ...e, sumDonated: 0, sumNeeded: 0,
\* sumProjectedDonations: undefined }
resetEntry(e) ==
    [e EXCEPT !.sumDonated = Num(0), !.sumNeeded = Num(0),
              !.sumProjectedDonations = Undefined]

\* no copy: the input objects themselves are reset and returned
copyEntriesAliased(h, entries) ==
    [heap   |-> [r \in DOMAIN h |->
                    IF r \in Range(entries) THEN resetEntry(h[r]) ELSE h[r]],
     result |-> entries]

\* the copies are made in ascending order of index
copyEntriesSorted(h, entries) ==
    LET sorted == sortByIndex(h, entries)
    IN  [heap   |-> h \o [i \in 1..Len(sorted) |-> resetEntry(h[sorted[i]])],
         result |-> [i \in 1..Len(sorted) |-> Len(h) + i]]

\* entries.map((e) => ({...e, ...})): one new object per input entry, the
\* input objects are only read
copyEntries(h, entries) ==
    [heap   |-> h \o [i \in 1..Len(entries) |-> resetEntry(h[entries[i]])],
     result |-> [i \in 1..Len(entries) |-> Len(h) + i]]

\* result.forEach from position i on, with the running totals so far
RECURSIVE cumulate(_, _, _, _, _)
cumulate(h, result, i, sumDonated, sumNeeded) ==
    IF i > Len(result) THEN h
    ELSE LET entry == h[result[i]]
             sd    == Plus(sumDonated, entry.donated)
             sn    == Plus(sumNeeded, entry.needed)
         IN  cumulate([h EXCEPT ![result[i]].sumDonated = sd,
                                ![result[i]].sumNeeded  = sn],
                      result, i + 1, sd, sn)

\* every entry gets its own amounts: the totals are not carried along
cumulativeSumsNoCarry(h, result) ==
    [r \in DOMAIN h |->
        IF r \in Range(result)
        THEN [h[r] EXCEPT !.sumDonated = h[r].donated, !.sumNeeded = h[r].needed]
        ELSE h[r]]

\* the running totals kept outside the function and never reset: a call
\* starts from the totals the calls before it left behind (the greatest
\* sums in the heap)
cumulativeSumsCarriedOver(h, result) ==
    LET donatedSoFar == CHOOSE v \in {h[r].sumDonated : r \in DOMAIN h} \cup {Num(0)} :
                            \A r \in DOMAIN h : Gte(v, h[r].sumDonated)
        neededSoFar  == CHOOSE v \in {h[r].sumNeeded : r \in DOMAIN h} \cup {Num(0)} :
                            \A r \in DOMAIN h : Gte(v, h[r].sumNeeded)
    IN  cumulate(h, result, 1, donatedSoFar, neededSoFar)

\* let sumDonated = 0; let sumNeeded = 0; result.forEach(...)
cumulativeSums(h, result) == cumulate(h, result, 1, Num(0), Num(0))

\* the first WindowSize entries with a donation
lastThreeMonthsFirst(h, result) ==
    LET bearing == SelectSeq(result, LAMBDA r : h[r].hasDonation)
    IN  SubSeq(bearing, 1, IF Len(bearing) < WindowSize THEN Len(bearing) ELSE WindowSize)

\* result.filter((e) => e.hasDonation).slice(-3)
lastThreeMonths(h, result) ==
    sliceLast(SelectSeq(result, LAMBDA r : h[r].hasDonation), WindowSize)

avgDonated(h, window) ==
    Div(reduceSum([i \in 1..Len(window) |-> h[window[i]].donated]), Num(Len(window)))

\* the sumDonated of the first entry of the window, not the mean
avgSumDonatedOfFirst(h, window) == h[window[1]].sumDonated

avgSumDonated(h, window) ==
    Div(reduceSum([i \in 1..Len(window) |-> h[window[i]].sumDonated]), Num(Len(window)))

avgIndex(h, window) ==
    Div(reduceSum([i \in 1..Len(window) |-> h[window[i]].index]), Num(Len(window)))

\* lastThreeMonths[0].index
projectionStart(h, window) == h[window[1]].index

\* the same line multiplied out:
\* avgSumDonated + avgDonated * entry.index - avgDonated * avgIndex
projectedValueMultipliedOut(avgSum, avgDon, avgIdx, index) ==
    Minus(Plus(avgSum, Times(avgDon, index)), Times(avgDon, avgIdx))

\* avgSumDonated + avgDonated * (entry.index - avgIndex)
projectedValue(avgSum, avgDon, avgIdx, index) ==
    Plus(avgSum, Times(avgDon, Minus(index, avgIdx)))

\* entry.index > projectionStart
isProjectedStrict(index, start) == Gt(index, start)

\* entry.index >= projectionStart
isProjected(index, start) == Gte(index, start)

\* the body of the guarded block: the three averages, then
\* result.forEach((entry) => { if (entry.index >= projectionStart) ... })
projectFrom(h, result, window) ==
    LET avgDon == avgDonated(h, window)
        avgSum == avgSumDonated(h, window)
        avgIdx == avgIndex(h, window)
        start  == projectionStart(h, window)
    IN  [r \in DOMAIN h |->
            IF r \in Range(result) /\ isProjected(h[r].index, start)
            THEN [h[r] EXCEPT !.sumProjectedDonations =
                      projectedValue(avgSum, avgDon, avgIdx, h[r].index)]
            ELSE h[r]]

\* the projection without the guard on the window: reading
\* lastThreeMonths[0].index of an empty window throws a TypeError
projectUnguarded(h, result) ==
    LET window == lastThreeMonths(h, result)
    IN  IF Len(window) > 0
        THEN [heap |-> projectFrom(h, result, window), threw |-> FALSE]
        ELSE [heap |-> h, threw |-> TRUE]

\* if (lastThreeMonths.length > 0) { ... }
project(h, result) ==
    LET window == lastThreeMonths(h, result)
    IN  IF Len(window) > 0
        THEN [heap |-> projectFrom(h, result, window), threw |-> FALSE]
        ELSE [heap |-> h, threw |-> FALSE]

\* processEntries(entries) on heap h: [heap, result, threw]
processEntries(h, entries) ==
    LET copied == copyEntries(h, entries)
        summed == cumulativeSums(copied.heap, copied.result)
        done   == project(summed, copied.result)
    IN  [heap |-> done.heap, result |-> copied.result, threw |-> done.threw]

\* ------------------------------------------------------------------------
\* The pipeline as a state machine
\* ------------------------------------------------------------------------

VARIABLES
    tsv,        \* the outcome of d3.tsv(file)
    pc,         \* the step the pipeline is at
    heap,       \* the entry objects allocated so far
    raw,        \* the array returned by loadData
    processed,  \* processEntries(raw)
    again,      \* processEntries(raw), called a second time
    nested,     \* processEntries(processed)
    years,          \* dashboard: the distinct years of the data, ascending
    selectedYear,   \* dashboard: the year whose entries are charted
    selector,       \* the buttons in #year_selector
    columnChart,    \* the SVG elements in #column_chart
    projectionChart,\* the SVG elements in #projection_chart
    event,          \* the last event dispatched to the dashboard
    effects,        \* what the handler of that event did, in order
    events          \* number of events dispatched so far

dashboard ==
    <<years, selectedYear, selector, columnChart, projectionChart,
      event, effects, events>>

vars == <<tsv, pc, heap, raw, processed, again, nested, dashboard>>

\* the page before the dashboard module has run
NoDashboard ==
    /\ years = <<>>
    /\ selectedYear = Undefined
    /\ selector = <<>>
    /\ columnChart = <<>>
    /\ projectionChart = <<>>
    /\ event = [type |-> "none", year |-> Undefined]
    /\ effects = <<>>
    /\ events = 0

Init ==
    /\ tsv \in TsvOutcomes
    /\ pc = "start"
    /\ heap = <<>>
    /\ raw = <<>>
    /\ processed = <<>>
    /\ again = <<>>
    /\ nested = <<>>
    /\ NoDashboard

\* const raw = await loadData(file)
LoadData ==
    /\ pc = "start"
    /\ \E r \in {loadData(heap, tsv)} :
           /\ heap' = r.heap
           /\ raw' = r.result
           /\ pc' = IF r.threw THEN "rejected" ELSE "loaded"
    /\ UNCHANGED <<tsv, processed, again, nested, dashboard>>

\* const processed = processEntries(raw)
ProcessEntries ==
    /\ pc = "loaded"
    /\ \E r \in {processEntries(heap, raw)} :
           /\ heap' = r.heap
           /\ processed' = IF r.threw THEN processed ELSE r.result
           /\ pc' = IF r.threw THEN "threw" ELSE "processed"
    /\ UNCHANGED <<tsv, raw, again, nested, dashboard>>

\* processEntries(raw) once more, as every redraw does
ProcessAgain ==
    /\ pc = "processed"
    /\ \E r \in {processEntries(heap, raw)} :
           /\ heap' = r.heap
           /\ again' = IF r.threw THEN again ELSE r.result
           /\ pc' = IF r.threw THEN "threw" ELSE "again"
    /\ UNCHANGED <<tsv, raw, processed, nested, dashboard>>

\* processEntries(processed): the output fed back as input
ProcessNested ==
    /\ pc = "again"
    /\ \E r \in {processEntries(heap, processed)} :
           /\ heap' = r.heap
           /\ nested' = IF r.threw THEN nested ELSE r.result
           /\ pc' = IF r.threw THEN "threw" ELSE "nested"
    /\ UNCHANGED <<tsv, raw, processed, again, dashboard>>

Next == LoadData \/ ProcessEntries \/ ProcessAgain \/ ProcessNested

Spec == Init /\ [][Next]_vars

\* ------------------------------------------------------------------------
\* loadData on tables of two rows whose months range over whole years
\* ------------------------------------------------------------------------

\* number of calendar years the months are taken from
MaxYears == 3

\* the years around the base year 2000, starting the year before it
CalendarYears == 1999..(1998 + MaxYears)

CalendarMonths == CalendarYears \X (1..12)

\* decimal digits of a natural number
RECURSIVE Decimal(_)
Decimal(n) ==
    IF n < 10 THEN <<CHOOSE c \in DigitChars : DigitVal(c) = n>>
    ELSE Append(Decimal(n \div 10), CHOOSE c \in DigitChars : DigitVal(c) = n % 10)

\* "YYYY-MM"
MonthString(y, m) ==
    Decimal(y) \o <<"-">> \o (IF m < 10 THEN <<"0">> ELSE <<>>) \o Decimal(m)

InitCalendar ==
    /\ tsv \in {[ok   |-> TRUE,
                 rows |-> <<Row(MonthString(a[1], a[2]), Str1000, Str0, Str100),
                            Row(MonthString(b[1], b[2]), Str1000, Str0, Str100)>>] :
                    a \in CalendarMonths, b \in CalendarMonths}
    /\ pc = "start"
    /\ heap = <<>>
    /\ raw = <<>>
    /\ processed = <<>>
    /\ again = <<>>
    /\ nested = <<>>
    /\ NoDashboard

NextCalendar == LoadData

SpecCalendar == InitCalendar /\ [][NextCalendar]_vars

\* ------------------------------------------------------------------------
\* processEntries called on entries in any order: the exported function
\* takes whatever array its caller built
\* ------------------------------------------------------------------------

\* largest number of entries handed to processEntries
MaxEntries == 3

\* the entries of the rows of a table, in row order, not sorted
InitUnordered ==
    /\ tsv \in {[ok |-> TRUE, rows |-> t] :
                    t \in UNION {[1..n -> RowPool] : n \in 0..MaxEntries}}
    /\ pc = "loaded"
    /\ heap = [i \in 1..Len(tsv.rows) |-> parseRow(tsv.rows[i])]
    /\ raw = [i \in 1..Len(tsv.rows) |-> i]
    /\ processed = <<>>
    /\ again = <<>>
    /\ nested = <<>>
    /\ NoDashboard

NextUnordered == ProcessEntries \/ ProcessAgain \/ ProcessNested

SpecUnordered == InitUnordered /\ [][NextUnordered]_vars

\* ------------------------------------------------------------------------
\* The pipeline on tables with rows that are not well-formed
\* ------------------------------------------------------------------------

\* largest number of rows of such a table
MaxMalformedRows == 2

\* a month that is no "YYYY-MM"
StrAbc == <<"a", "b", "c">>

\* an amount that is no number
StrNA == <<"n", "/", "a">>

\* two sample rows, and rows with a month that is no date, an amount that
\* is no number, no pledged column, no month column
MalformedPool ==
    { Row(Str2025_01, Str1000, Str200, Str600),
      Row(Str2025_02, Str1000, Str0,   Str800),
      Row(StrAbc,     Str1000, Str0,   Str800),
      Row(Str2025_03, Str1000, Str100, StrNA),
      Row(Str2025_03, Str1000, Absent, Str900),
      Row(Absent,     Str1000, Str100, Str900) }

InitMalformed ==
    /\ tsv \in {[ok |-> TRUE, rows |-> t] :
                    t \in UNION {[1..n -> MalformedPool] : n \in 1..MaxMalformedRows}}
    /\ pc = "start"
    /\ heap = <<>>
    /\ raw = <<>>
    /\ processed = <<>>
    /\ again = <<>>
    /\ nested = <<>>
    /\ NoDashboard

NextMalformed == LoadData \/ ProcessEntries \/ ProcessAgain \/ ProcessNested

SpecMalformed == InitMalformed /\ [][NextMalformed]_vars

\* ------------------------------------------------------------------------
\* Vocabulary of the properties
\* ------------------------------------------------------------------------

\* the entry objects an array refers to, in order
Deref(a) == [i \in 1..Len(a) |-> heap[a[i]]]

Called == pc \in {"processed", "again", "nested"}

Defined(v) == v.kind # "undefined"

\* a < b as numbers of the program
Lt(a, b) == a.kind = "number" /\ b.kind = "number" /\ Compare(a, b) < 0

\* an integer as a whole number of the program
IsWhole(v) == v.kind = "number" /\ v.e >= 0

\* the integer a whole number of the program stands for
IntOf(v) == v.sign * SmallOf(BigShl(v.m, v.e))

\* positions of the entries of array a that have a donation
Bearing(a) == {i \in 1..Len(a) : heap[a[i]].hasDonation}

\* positions of the last three entries with a donation (all, when fewer)
WindowPositions(a) ==
    {i \in Bearing(a) : Cardinality({j \in Bearing(a) : j > i}) < 3}

\* position of the first entry of the projection window
WindowStart(a) == CHOOSE i \in WindowPositions(a) : \A j \in WindowPositions(a) : i <= j

\* integer sum of f over a set of positions
RECURSIVE SumOver(_, _)
SumOver(S, f) ==
    IF S = {} THEN 0
    ELSE LET i == CHOOSE j \in S : TRUE IN f[i] + SumOver(S \ {i}, f)

\* the table has one row per month
OneRowPerMonth ==
    \A i, j \in 1..Len(tsv.rows) : i # j => tsv.rows[i].month # tsv.rows[j].month

\* ------------------------------------------------------------------------
\* The single-pass loadData (src/src/load_data.ts, second definition):
\* parse, sort, cumulative sums and projection in one function, over the
\* columns month, donors, needed, pledged, received
\* ------------------------------------------------------------------------

\* largest number of rows of a table given to the single-pass loadData
MaxSinglePassRows == 3

monthLabels ==
    << <<"J", "a", "n">>, <<"F", "e", "b">>, <<"M", "a", "r">>,
       <<"A", "p", "r">>, <<"M", "a", "y">>, <<"J", "u", "n">>,
       <<"J", "u", "l">>, <<"A", "u", "g">>, <<"S", "e", "p">>,
       <<"O", "c", "t">>, <<"N", "o", "v">>, <<"D", "e", "c">> >>

\* String(n) of what parseInt returns: a whole number or NaN
NumberToString(v) ==
    IF IsWhole(v)
    THEN (IF v.sign < 0 THEN <<"-">> ELSE <<>>) \o Decimal(Abs(IntOf(v)))
    ELSE <<"N", "a", "N">>

\* s.slice(k)
sliceFrom(s, k) == IF k >= Len(s) THEN <<>> ELSE SubSeq(s, k + 1, Len(s))

\* monthLabels[month - 1] ?? month, as it appears in a template string
monthLabelOr(month) ==
    IF IsWhole(month) /\ IntOf(month) \in 1..12
    THEN monthLabels[IntOf(month)]
    ELSE NumberToString(month)

\* `${monthLabels[month - 1] ?? month} '${String(year).slice(2)}`
labelWithYear(year, month) ==
    monthLabelOr(month) \o <<" ", "'">> \o sliceFrom(NumberToString(year), 2)

\* (year - 2020) * 12 + month - 1
columnOf(year, month) ==
    Minus(Plus(Times(Minus(year, Num(2020)), Num(12)), month), Num(1))

\* hasDonation: received > 0
hasDonationSinglePass(received, pledged) == Gt(received, Num(0))

\* the callback of data.map in the single-pass loadData
parseRowSinglePass(entry) ==
    LET object(year, month, donors, needed, pledged, received) ==
            [ label                 |-> labelWithYear(year, month),
              column                |-> columnOf(year, month),
              donors                |-> donors,
              donated               |-> Plus(pledged, received),
              needed                |-> needed,
              pledged               |-> pledged,
              received              |-> received,
              hasDonation           |-> hasDonationSinglePass(received, pledged),
              sumDonated            |-> Num(0),
              sumNeeded             |-> Num(0),
              sumProjectedDonations |-> Undefined ]
        dated(date) ==
            object(parseInt(At(date, 0)), parseInt(At(date, 1)),
                   parseInt(ToStr(entry.donors)),
                   parseFloat(ToStr(entry.needed)),
                   parseFloat(ToStr(entry.pledged)),
                   parseFloat(ToStr(entry.received)))
    IN  dated(split(entry.month, "-"))

\* (a, b) => a.column - b.column, on references into heap h
compareColumn(h, a, b) == Minus(h[a].column, h[b].column)

RECURSIVE insertSortedByColumn(_, _, _)
insertSortedByColumn(h, s, x) ==
    IF s = <<>> THEN <<x>>
    ELSE IF Gt(compareColumn(h, s[Len(s)], x), Num(0))
         THEN Append(insertSortedByColumn(h, SubSeq(s, 1, Len(s) - 1), x), s[Len(s)])
         ELSE Append(s, x)

RECURSIVE sortPrefixByColumn(_, _, _)
sortPrefixByColumn(h, s, i) ==
    IF i = 0 THEN <<>>
    ELSE insertSortedByColumn(h, sortPrefixByColumn(h, s, i - 1), s[i])

\* entries.sort((a, b) => a.column - b.column)
sortByColumn(h, s) == sortPrefixByColumn(h, s, Len(s))

avgColumn(h, window) ==
    Div(reduceSum([i \in 1..Len(window) |-> h[window[i]].column]), Num(Len(window)))

\* entries.forEach((entry) => { if (entry.column >= projectionStart) ... })
projectColumnsFrom(h, entries, window) ==
    LET each(avgDon, avgSum, avgCol, start) ==
            [r \in DOMAIN h |->
                IF r \in Range(entries) /\ Gte(h[r].column, start)
                THEN [h[r] EXCEPT !.sumProjectedDonations =
                          Plus(avgSum, Times(avgDon, Minus(h[r].column, avgCol)))]
                ELSE h[r]]
    IN  each(avgDonated(h, window), avgSumDonated(h, window), avgColumn(h, window),
             h[window[1]].column)

\* the projection of the single-pass loadData: no guard, so that
\* lastThreeMonths[0].column of an empty window is a property read of
\* undefined, a TypeError
projectColumns(h, entries) ==
    LET from(window) ==
            IF Len(window) = 0
            THEN [heap |-> h, threw |-> TRUE]
            ELSE [heap |-> projectColumnsFrom(h, entries, window), threw |-> FALSE]
    IN  from(lastThreeMonths(h, entries))

\* the single-pass loadData(file) on heap h: [heap, result, threw].
\* A failed fetch is caught and gives []; everything after the try block
\* is not, so a TypeError there rejects the promise
loadDataSinglePass(h, table) ==
    IF ~table.ok
    THEN [heap |-> h, result |-> <<>>, threw |-> FALSE]
    ELSE IF \E i \in 1..Len(table.rows) : table.rows[i].month = Absent
    THEN [heap |-> h, result |-> <<>>, threw |-> TRUE]
    ELSE LET returned(done, entries) ==
                 [heap   |-> done.heap,
                  result |-> IF done.threw THEN <<>> ELSE entries,
                  threw  |-> done.threw]
             sorted(h1, entries) ==
                 returned(projectColumns(cumulativeSums(h1, entries), entries), entries)
             mapped(h1) ==
                 sorted(h1, sortByColumn(h1, [i \in 1..Len(table.rows) |-> Len(h) + i]))
         IN  mapped(h \o [i \in 1..Len(table.rows) |-> parseRowSinglePass(table.rows[i])])

Str3 == <<"3">>

\* a row of the richer schema: the row with its donors column
WithDonors(row, donors) ==
    [month |-> row.month, donors |-> donors, needed |-> row.needed,
     pledged |-> row.pledged, received |-> row.received]

SinglePassPool == {WithDonors(row, Str3) : row \in RowPool}

InitSinglePass ==
    /\ tsv \in {[ok |-> FALSE, rows |-> <<>>]} \cup
               {[ok |-> TRUE, rows |-> t] :
                    t \in UNION {[1..n -> SinglePassPool] : n \in 0..MaxSinglePassRows}}
    /\ pc = "start"
    /\ heap = <<>>
    /\ raw = <<>>
    /\ processed = <<>>
    /\ again = <<>>
    /\ nested = <<>>
    /\ NoDashboard

\* const data = await loadData('donations.tsv'), the single-pass loadData
LoadDataSinglePass ==
    /\ pc = "start"
    /\ \E r \in {loadDataSinglePass(heap, tsv)} :
           /\ heap' = r.heap
           /\ raw' = r.result
           /\ pc' = IF r.threw THEN "rejected" ELSE "loaded"
    /\ UNCHANGED <<tsv, processed, again, nested, dashboard>>

NextSinglePass == LoadDataSinglePass

SpecSinglePass == InitSinglePass /\ [][NextSinglePass]_vars

\* ------------------------------------------------------------------------
\* utils: the tick label of an index on the projection chart's month axis
\* ------------------------------------------------------------------------

\* indexToLabel(index): the test table 0 -> Dec, 1 -> Jan, ..., 12 -> Dec,
\* 13 -> Jan, continued with period 12
indexToLabel(index) == monthLabels[((IntOf(index) + 11) % 12) + 1]

\* ------------------------------------------------------------------------
\* The charts (drawColumnChart, drawProjectionChart): what a call appends
\* to its container.  An SVG element is recorded by the data bound to its
\* marks (references to entry objects), not by its geometry.
\* ------------------------------------------------------------------------

\* what Math.max() of no arguments returns
NegInfinity == [kind |-> "-Infinity", sign |-> -1, m |-> <<>>, e |-> 0]

\* a === b on numbers: NaN is equal to nothing
StrictEquals(a, b) == a.kind # "NaN" /\ a = b

\* a number used as a condition: 0 and NaN are falsy, as is undefined
Truthy(v) == v.kind = "number" /\ v.m # <<>>

\* [...new Set(vals)]: the first occurrence of every value
RECURSIVE distinct(_)
distinct(vals) ==
    IF vals = <<>> THEN <<>>
    ELSE LET front == distinct(SubSeq(vals, 1, Len(vals) - 1))
             last  == vals[Len(vals)]
         IN  IF last \in Range(front) THEN front ELSE Append(front, last)

RECURSIVE insertNumber(_, _)
insertNumber(s, x) ==
    IF s = <<>> THEN <<x>>
    ELSE IF Gt(Minus(s[Len(s)], x), Num(0))
         THEN Append(insertNumber(SubSeq(s, 1, Len(s) - 1), x), s[Len(s)])
         ELSE Append(s, x)

\* vals.sort((a, b) => a - b)
RECURSIVE sortNumbers(_)
sortNumbers(vals) ==
    IF vals = <<>> THEN <<>>
    ELSE insertNumber(sortNumbers(SubSeq(vals, 1, Len(vals) - 1)), vals[Len(vals)])

\* the SVG drawColumnChart appends: three groups of bars, each joined to
\* the whole data
drawColumnChart(h, data) ==
    [needed |-> data, received |-> data, pledged |-> data]

\* the annotation at the right edge: the difference between the projected
\* and the needed total of the last entry when it is negative, else nothing
shortfallOf(h, data) ==
    IF data = <<>> THEN Undefined
    ELSE LET annotation(sumProjectedDonations, sumNeeded) ==
                 LET drawnFor(difference) ==
                         IF Defined(sumProjectedDonations) /\ Defined(sumNeeded)
                                /\ Lt(difference, Num(0))
                         THEN difference
                         ELSE Undefined
                 IN  drawnFor(Minus(sumProjectedDonations, sumNeeded))
         IN  annotation(h[data[Len(data)]].sumProjectedDonations,
                        h[data[Len(data)]].sumNeeded)

\* the SVG drawProjectionChart appends: the month axis (one tick per
\* distinct index, labelled by indexToLabel), the three lines with the
\* entries each is drawn through, and the shortfall annotation
drawProjectionChart(h, data) ==
    LET axis(domain) == [i \in 1..Len(domain) |-> indexToLabel(domain[i])]
    IN  [ticks     |-> axis(distinct([i \in 1..Len(data) |-> h[data[i]].index])),
         needed    |-> data,
         donated   |-> SelectSeq(data, LAMBDA r : h[r].hasDonation),
         projected |-> SelectSeq(data, LAMBDA r : Truthy(h[r].sumProjectedDonations)),
         shortfall |-> shortfallOf(h, data)]

\* ------------------------------------------------------------------------
\* The dashboard with the year selector (src/unnamed/part_000)
\* ------------------------------------------------------------------------

\* largest number of rows of the dashboard's table
MaxDashboardRows == 3

\* number of click and resize events dispatched
MaxEvents == 3

\* Math.max(...vals)
mathMax(vals) ==
    IF vals = <<>> THEN NegInfinity
    ELSE IF \E i \in 1..Len(vals) : ~IsNumber(vals[i]) THEN NaN
    ELSE sortNumbers(vals)[Len(vals)]

\* [...new Set(allData.map((e) => e.year))].sort((a, b) => a - b)
yearsOf(h, allData) ==
    sortNumbers(distinct([i \in 1..Len(allData) |-> h[allData[i]].year]))

\* let selectedYear = years[0]
initialYearFirst(yrs) == IF yrs = <<>> THEN Undefined ELSE yrs[1]

\* let selectedYear = Math.max(...years)
initialYear(yrs) == mathMax(yrs)

\* renderYearSelector(): the container is emptied, then one button per
\* year is appended; the button's click listener keeps its year
renderYearSelector(d, yrs) ==
    [d EXCEPT
        !.selector = [i \in 1..Len(yrs) |->
                        [textContent |-> NumberToString(yrs[i]),
                         active      |-> StrictEquals(yrs[i], d.selectedYear),
                         year        |-> yrs[i]]],
        !.effects  = Append(@, "renderYearSelector")]

\* allData.filter((e) => e.year !== selectedYear): the other years
filterYearOthers(h, allData, year) ==
    SelectSeq(allData, LAMBDA r : ~StrictEquals(h[r].year, year))

\* allData.filter((e) => e.year === selectedYear)
filterYear(h, allData, year) ==
    SelectSeq(allData, LAMBDA r : StrictEquals(h[r].year, year))

\* drawCharts()
drawCharts(d, allData) ==
    LET drawn(p) ==
            IF p.threw
            THEN [d EXCEPT !.heap = p.heap, !.threw = TRUE,
                           !.effects = Append(@, "drawCharts")]
            ELSE [d EXCEPT
                    !.heap            = p.heap,
                    !.processed       = p.result,
                    !.columnChart     = Append(@, drawColumnChart(p.heap, p.result)),
                    !.projectionChart = Append(@, drawProjectionChart(p.heap, p.result)),
                    !.effects         = Append(@, "drawCharts")]
    IN  drawn(processEntries(d.heap, filterYear(d.heap, allData, d.selectedYear)))

\* the module body after `await loadData`: years, selectedYear,
\* renderYearSelector(), drawCharts()
startDashboard(h, allData) ==
    LET started(yrs) ==
            [years |-> yrs,
             page  |-> drawCharts(
                           renderYearSelector(
                               [heap |-> h, selectedYear |-> initialYear(yrs),
                                selector |-> <<>>, columnChart |-> <<>>,
                                projectionChart |-> <<>>, processed |-> <<>>,
                                effects |-> <<>>, threw |-> FALSE],
                               yrs),
                           allData)]
    IN  started(yearsOf(h, allData))

\* the click listener with the charts drawn before the selector
clickDrawsFirst(d, yrs, allData, year) ==
    IF StrictEquals(year, d.selectedYear) THEN d
    ELSE renderYearSelector(
             drawCharts([d EXCEPT !.selectedYear = year,
                                  !.effects = Append(@, "selectedYear")],
                        allData),
             yrs)

\* the click listener of the button of `year`
click(d, yrs, allData, year) ==
    IF StrictEquals(year, d.selectedYear) THEN d
    ELSE drawCharts(
             renderYearSelector([d EXCEPT !.selectedYear = year,
                                          !.effects = Append(@, "selectedYear")],
                                yrs),
             allData)

Str2025_04 == <<"2", "0", "2", "5", "-", "0", "4">>

\* rows of two years: a pledge-only December, two months with the same
\* donation three months apart, a month without donation
DashboardPool ==
    { Row(Str2024_12, Str1200, Str50, Str0),
      Row(Str2025_01, Str1000, Str0,  Str100),
      Row(Str2025_04, Str1000, Str0,  Str100),
      Row(Str2025_02, Str1200, Str0,  Str0) }

InitDashboard ==
    /\ tsv \in {[ok |-> FALSE, rows |-> <<>>]} \cup
               {[ok |-> TRUE, rows |-> t] :
                    t \in UNION {[1..n -> DashboardPool] : n \in 0..MaxDashboardRows}}
    /\ pc = "start"
    /\ heap = <<>>
    /\ raw = <<>>
    /\ processed = <<>>
    /\ again = <<>>
    /\ nested = <<>>
    /\ NoDashboard

\* the page as the handlers find it
Page ==
    [heap |-> heap, selectedYear |-> selectedYear, selector |-> selector,
     columnChart |-> columnChart, projectionChart |-> projectionChart,
     processed |-> processed, effects |-> <<>>, threw |-> FALSE]

\* the page as a handler leaves it
Leaves(d) ==
    /\ heap' = d.heap
    /\ selectedYear' = d.selectedYear
    /\ selector' = d.selector
    /\ columnChart' = d.columnChart
    /\ projectionChart' = d.projectionChart
    /\ processed' = d.processed
    /\ effects' = d.effects
    /\ pc' = IF d.threw THEN "threw" ELSE "ready"

\* the module body once allData (raw) has arrived; the resize listener is
\* registered at its end
Startup ==
    /\ pc = "loaded"
    /\ \E s \in {startDashboard(heap, raw)} :
           /\ years' = s.years
           /\ Leaves(s.page)
    /\ event' = [type |-> "load", year |-> Undefined]
    /\ UNCHANGED <<tsv, raw, again, nested, events>>

\* a click on one of the buttons of the selector
Click ==
    /\ pc = "ready"
    /\ events < MaxEvents
    /\ \E b \in 1..Len(selector) :
           /\ event' = [type |-> "click", year |-> selector[b].year]
           /\ \E d \in {click(Page, years, raw, selector[b].year)} : Leaves(d)
    /\ events' = events + 1
    /\ UNCHANGED <<tsv, raw, again, nested, years>>

\* window 'resize': drawCharts
Resize ==
    /\ pc = "ready"
    /\ events < MaxEvents
    /\ event' = [type |-> "resize", year |-> Undefined]
    /\ \E d \in {drawCharts(Page, raw)} : Leaves(d)
    /\ events' = events + 1
    /\ UNCHANGED <<tsv, raw, again, nested, years>>

NextDashboard == LoadData \/ Startup \/ Click \/ Resize

SpecDashboard == InitDashboard /\ [][NextDashboard]_vars

\* ------------------------------------------------------------------------
\* The loadData of src/src/lib/data.ts (second definition): columns month,
\* donors, donated, needed; sums and projection in one loop, the projection
\* anchored at the last entry with a donation
\* ------------------------------------------------------------------------

\* largest number of rows of a table given to this loadData
MaxAnchoredRows == 4

\* the callback of data.map
parseRowAnchored(entry) ==
    LET object(year, month, donated) ==
            [ label                 |-> monthLabelOr(month),
              column                |-> columnOf(year, month),
              donors                |-> parseInt(ToStr(entry.donors)),
              donated               |-> donated,
              needed                |-> parseFloat(ToStr(entry.needed)),
              hasDonation           |-> Gt(donated, Num(0)),
              sumDonated            |-> Num(0),
              sumNeeded             |-> Num(0),
              sumProjectedDonations |-> Undefined ]
        dated(date) ==
            object(parseInt(At(date, 0)), parseInt(At(date, 1)),
                   parseFloat(ToStr(entry.donated)))
    IN  dated(split(entry.month, "-"))

\* the projection started at the first entry of the window
projectionStartEntryFirst(window) == window[1]

\* lastThreeMonths[lastThreeMonths.length - 1]
projectionStartEntry(window) == window[Len(window)]

\* entries.forEach from position i on, with the running totals so far and
\* the avgDonated of the window: [heap, threw].  entry.donated ?? 0 is
\* entry.donated, which is never null; with an empty window
\* projectionStartEntry is undefined and the first pass of the loop throws
\* a TypeError at .column
RECURSIVE cumulateAnchored(_, _, _, _, _, _, _)
cumulateAnchored(h, entries, i, sumDonated, sumNeeded, window, avg) ==
    IF i > Len(entries) THEN [heap |-> h, threw |-> FALSE]
    ELSE LET pass(r, sd, sn) ==
                 LET summed(h1) ==
                         IF window = <<>> THEN [heap |-> h1, threw |-> TRUE]
                         ELSE LET projected(start) ==
                                      cumulateAnchored(
                                          IF Gte(h[r].column, start)
                                          THEN [h1 EXCEPT ![r].sumProjectedDonations =
                                                   Plus(sd, Times(avg,
                                                       Minus(h[r].column, start)))]
                                          ELSE h1,
                                          entries, i + 1, sd, sn, window, avg)
                              IN  projected(h[projectionStartEntry(window)].column)
                 IN  summed([h EXCEPT ![r].sumDonated = sd, ![r].sumNeeded = sn])
         IN  pass(entries[i], Plus(sumDonated, h[entries[i]].donated),
                  Plus(sumNeeded, h[entries[i]].needed))

\* loadData(file) of lib/data.ts on heap h: [heap, result, threw]
loadDataAnchored(h, table) ==
    IF ~table.ok
    THEN [heap |-> h, result |-> <<>>, threw |-> FALSE]
    ELSE IF \E i \in 1..Len(table.rows) : table.rows[i].month = Absent
    THEN [heap |-> h, result |-> <<>>, threw |-> TRUE]
    ELSE LET returned(done, entries) ==
                 [heap   |-> done.heap,
                  result |-> IF done.threw THEN <<>> ELSE entries,
                  threw  |-> done.threw]
             windowed(h1, entries, window) ==
                 returned(cumulateAnchored(h1, entries, 1, Num(0), Num(0), window,
                                           avgDonated(h1, window)),
                          entries)
             sorted(h1, entries) ==
                 windowed(h1, entries, lastThreeMonths(h1, entries))
             mapped(h1) ==
                 sorted(h1, sortByColumn(h1, [i \in 1..Len(table.rows) |-> Len(h) + i]))
         IN  mapped(h \o [i \in 1..Len(table.rows) |-> parseRowAnchored(table.rows[i])])

DonatedRow(m, d, n) == [month |-> m, donors |-> Str3, donated |-> d, needed |-> n]

\* months with and without a donation, two rows of the same month, and
\* three donations whose mean is no whole number
AnchoredPool ==
    { DonatedRow(Str2024_12, Str50,  Str1200),
      DonatedRow(Str2025_01, Str100, Str1000),
      DonatedRow(Str2025_02, Str0,   Str1200),
      DonatedRow(Str2025_03, Str800, Str1000),
      DonatedRow(Str2025_03, Str0,   Str1000),
      DonatedRow(Str2025_04, Str0,   Str1000) }

InitAnchored ==
    /\ tsv \in {[ok |-> FALSE, rows |-> <<>>]} \cup
               {[ok |-> TRUE, rows |-> t] :
                    t \in UNION {[1..n -> AnchoredPool] : n \in 0..MaxAnchoredRows}}
    /\ pc = "start"
    /\ heap = <<>>
    /\ raw = <<>>
    /\ processed = <<>>
    /\ again = <<>>
    /\ nested = <<>>
    /\ NoDashboard

\* const data = await loadData('donations.tsv'), the loadData of lib/data.ts
LoadDataAnchored ==
    /\ pc = "start"
    /\ \E r \in {loadDataAnchored(heap, tsv)} :
           /\ heap' = r.heap
           /\ raw' = r.result
           /\ pc' = IF r.threw THEN "rejected" ELSE "loaded"
    /\ UNCHANGED <<tsv, processed, again, nested, dashboard>>

NextAnchored == LoadDataAnchored

SpecAnchored == InitAnchored /\ [][NextAnchored]_vars

\* ------------------------------------------------------------------------
\* Properties
\* ------------------------------------------------------------------------

\* C1: in every result of processEntries (its input being in chronological
\* order with non-negative amounts) sumDonated of the first entry is its
\* donated, sumDonated of every later entry is the sumDonated of the entry
\* before it plus its own donated, and likewise sumNeeded over needed.
C1_CumulativeSums ==
    \A a \in {processed, again, nested} :
        \A i \in 1..Len(a) :
            LET e == heap[a[i]]
            IN  /\ IsWhole(e.sumDonated) /\ IsWhole(e.sumNeeded)
                /\ IntOf(e.sumDonated) =
                       (IF i = 1 THEN 0 ELSE IntOf(heap[a[i - 1]].sumDonated)) + IntOf(e.donated)
                /\ IntOf(e.sumNeeded) =
                       (IF i = 1 THEN 0 ELSE IntOf(heap[a[i - 1]].sumNeeded)) + IntOf(e.needed)

\* the sample table of the test suite has been processed
C1_Witness ==
    /\ pc = "processed"
    /\ Len(processed) = 3
    /\ [i \in 1..3 |-> heap[processed[i]].donated] = <<Num(800), Num(800), Num(1000)>>
    /\ [i \in 1..3 |-> heap[processed[i]].sumDonated] = <<Num(800), Num(1600), Num(2600)>>
    /\ [i \in 1..3 |-> heap[processed[i]].sumNeeded] = <<Num(1000), Num(2000), Num(3000)>>

\* C2: for a table with one well-formed row per month, in whatever order,
\* loadData returns as many entries as there are rows, strictly ascending
\* by index.
C2_SortedSameLength ==
    (pc # "start" /\ tsv.ok /\ OneRowPerMonth) =>
        /\ Len(raw) = Len(tsv.rows)
        /\ \A i, j \in 1..Len(raw) :
               i < j => Lt(heap[raw[i]].index, heap[raw[j]].index)

\* four months arrived latest first and were put in order
C2_Witness ==
    /\ pc = "loaded"
    /\ OneRowPerMonth
    /\ Len(tsv.rows) = 4
    /\ [i \in 1..4 |-> tsv.rows[i].month]
           = <<Str2025_03, Str2025_02, Str2025_01, Str2024_12>>
    /\ raw = <<4, 3, 2, 1>>

\* C3: when some entry has a donation, a result of processEntries has
\* sumProjectedDonations defined for exactly the entries whose index is at
\* least projectionStart (the index of the first entry of the window), which
\* is every entry from the window's first entry through the last one.
C3_ProjectionRange ==
    \A a \in {processed, again, nested} :
        Bearing(a) # {} =>
            LET start == heap[a[WindowStart(a)]].index
            IN  \A i \in 1..Len(a) :
                    /\ Defined(heap[a[i]].sumProjectedDonations)
                           <=> Gte(heap[a[i]].index, start)
                    /\ i >= WindowStart(a)
                           => Defined(heap[a[i]].sumProjectedDonations)
                    /\ Lt(heap[a[i]].index, start) => i < WindowStart(a)

\* four months with donations: the first lies before the window and has no
\* projection, the other three have one
C3_Witness ==
    /\ pc = "processed"
    /\ Bearing(processed) = 1..4
    /\ OneRowPerMonth
    /\ ~Defined(heap[processed[1]].sumProjectedDonations)
    /\ \A i \in 2..4 : Defined(heap[processed[i]].sumProjectedDonations)

\* C4: every entry at or after projectionStart gets
\* referenceSum + avgDonated * (index - referencePeriod), with avgDonated the
\* mean of donated, referenceSum the mean of sumDonated and referencePeriod
\* the mean of index over the window: with n entries in the window and D, S,
\* I the window's sums of donated, sumDonated and index, the value is
\* S/n + D/n * (index - I/n), in the arithmetic of the program.
C4_CenteredFit ==
    \A a \in {processed, again, nested} :
        Bearing(a) # {} =>
            \E W \in {WindowPositions(a)} :
                \E n \in {Num(Cardinality(W))}, start \in {WindowStart(a)} :
                    \E avgDon \in {Div(Num(SumOver(W, [i \in 1..Len(a) |-> IntOf(heap[a[i]].donated)])), n)},
                       avgSum \in {Div(Num(SumOver(W, [i \in 1..Len(a) |-> IntOf(heap[a[i]].sumDonated)])), n)},
                       avgIdx \in {Div(Num(SumOver(W, [i \in 1..Len(a) |-> IntOf(heap[a[i]].index)])), n)} :
                        \A i \in 1..Len(a) :
                            i >= start =>
                                heap[a[i]].sumProjectedDonations
                                    = Plus(avgSum, Times(avgDon, Minus(heap[a[i]].index, avgIdx)))

\* December 50, January 800, February 800: the fit through the means gives
\* 300, 850, 1400, so the first projection is not the first sumDonated (50)
C4_Witness ==
    /\ pc = "processed"
    /\ Len(processed) = 3
    /\ [i \in 1..3 |-> heap[processed[i]].sumDonated] = <<Num(50), Num(850), Num(1650)>>
    /\ [i \in 1..3 |-> heap[processed[i]].sumProjectedDonations]
           = <<Num(300), Num(850), Num(1400)>>

\* the entries of array a at the positions of the window, in order
WindowEntries(a) ==
    LET W == WindowPositions(a)
    IN  [k \in 1..Cardinality(W) |->
            a[CHOOSE i \in W : Cardinality({j \in W : j < i}) = k - 1]]

\* C5: the projection window of processEntries is exactly the last 3
\* entries with hasDonation = true, in chronological order, and all of them
\* when there are fewer than 3.
C5_WindowIsLastThree ==
    Called =>
        /\ lastThreeMonths(heap, processed) = WindowEntries(processed)
        /\ Len(lastThreeMonths(heap, processed))
               = (IF Cardinality(Bearing(processed)) < 3
                  THEN Cardinality(Bearing(processed)) ELSE 3)

\* four entries with a donation: the window is the last three of them
C5_Witness ==
    /\ pc = "processed"
    /\ Bearing(processed) = 1..4
    /\ lastThreeMonths(heap, processed) = SubSeq(processed, 2, 4)

\* C6: when no entry has a donation, processEntries does not throw, no
\* entry of its result has sumProjectedDonations defined, and the cumulative
\* sums are populated all the same.
C6_NoDonationNoProjection ==
    (pc # "start" /\ \A i \in 1..Len(raw) : ~heap[raw[i]].hasDonation) =>
        /\ pc # "threw"
        /\ Called => Len(processed) = Len(raw)
        /\ \A a \in {processed, again, nested} :
               \A i \in 1..Len(a) :
                   /\ ~Defined(heap[a[i]].sumProjectedDonations)
                   /\ heap[a[i]].sumDonated = Num(0)
                   /\ heap[a[i]].sumNeeded =
                          Num(SumOver(1..i, [j \in 1..Len(a) |-> IntOf(heap[a[j]].needed)]))

\* two rows without any donation have been processed
C6_Witness ==
    /\ pc = "processed"
    /\ Len(processed) = 2
    /\ \A i \in 1..2 : ~heap[raw[i]].hasDonation
    /\ heap[processed[2]].sumNeeded = Num(2400)
    /\ \A i \in 1..2 : ~Defined(heap[processed[i]].sumProjectedDonations)

\* a call of processEntries is being made
CallsProcessEntries == pc \in {"loaded", "processed", "again"} /\ pc' # pc

\* C7: processEntries does not mutate its input: every entry object that
\* exists before the call has the same field values after it (so the entries
\* of loadData keep sumDonated = 0, sumNeeded = 0 and no projection), and the
\* returned array consists of objects that did not exist before.
C7_InputNotMutated ==
    [][CallsProcessEntries =>
          /\ \A r \in DOMAIN heap : r \in DOMAIN heap' /\ heap'[r] = heap[r]
          /\ raw' = raw
          /\ \A i \in 1..Len(raw) :
                 /\ heap'[raw[i]].sumDonated = Num(0)
                 /\ heap'[raw[i]].sumNeeded = Num(0)
                 /\ ~Defined(heap'[raw[i]].sumProjectedDonations)
          /\ LET out == IF pc = "loaded" THEN processed'
                        ELSE IF pc = "processed" THEN again' ELSE nested'
             IN  /\ Range(out) \cap DOMAIN heap = {}
                 /\ Len(out) = Cardinality(Range(out))
                 /\ Len(out) = Len(IF pc = "again" THEN processed ELSE raw)]_vars

\* the sample table has been processed: the result carries the sums, the
\* input entries still carry none
C7_Witness ==
    /\ pc = "processed"
    /\ Len(raw) = 3
    /\ [i \in 1..3 |-> heap[processed[i]].sumDonated] = <<Num(800), Num(1600), Num(2600)>>
    /\ \A i \in 1..3 : heap[raw[i]].sumDonated = Num(0)
    /\ Range(raw) \cap Range(processed) = {}

\* C8: processEntries called twice on the same input gives equal results,
\* and processEntries applied to its own output gives that output again.
C8_Idempotent ==
    /\ pc \in {"again", "nested"} => Deref(again) = Deref(processed)
    /\ pc = "nested" => Deref(nested) = Deref(processed)

\* a table with donations went through all three calls
C8_Witness ==
    /\ pc = "nested"
    /\ Len(nested) = 4
    /\ Bearing(nested) = 1..4
    /\ heap[nested[4]].sumDonated = Num(2650)
    /\ Defined(heap[nested[4]].sumProjectedDonations)

\* C9: for every parsed row donated = pledged + received, and pledged and
\* received are kept as fields of their own holding the amounts written in
\* the row (heap position i holds the entry made from row i).
C9_DonatedIsSum ==
    (pc # "start" /\ tsv.ok) =>
        \A i \in 1..Len(tsv.rows) :
            LET e == heap[i]
            IN  /\ IsWhole(e.donated) /\ IsWhole(e.pledged) /\ IsWhole(e.received)
                /\ IntOf(e.donated) = IntOf(e.pledged) + IntOf(e.received)
                /\ Decimal(IntOf(e.pledged)) = tsv.rows[i].pledged
                /\ Decimal(IntOf(e.received)) = tsv.rows[i].received

\* the first sample row (pledged 200, received 600) has been parsed
C9_Witness ==
    /\ pc = "loaded"
    /\ Len(tsv.rows) >= 1
    /\ tsv.rows[1].pledged = Str200 /\ tsv.rows[1].received = Str600
    /\ heap[1].pledged = Num(200) /\ heap[1].received = Num(600)
    /\ heap[1].donated = Num(800)

\* C10: hasDonation of a parsed row is true exactly when received > 0 or
\* pledged > 0.
C10_HasDonation ==
    (pc # "start" /\ tsv.ok) =>
        \A i \in 1..Len(tsv.rows) :
            heap[i].hasDonation <=> (IntOf(heap[i].received) > 0 \/ IntOf(heap[i].pledged) > 0)

\* a row with only a pledge got true, a row with neither got false
C10_Witness ==
    /\ pc = "loaded"
    /\ Len(tsv.rows) = 2
    /\ tsv.rows[1].pledged = Str50 /\ tsv.rows[1].received = Str0
    /\ tsv.rows[2].pledged = Str0 /\ tsv.rows[2].received = Str0
    /\ heap[1].hasDonation
    /\ ~heap[2].hasDonation

\* C11: zero rows give zero entries and nothing is raised: loadData of an
\* empty table resolves with an empty array, and processEntries of that
\* empty array returns an empty array (first, repeated and nested call)
\* without throwing.
C11_ZeroRows ==
    (tsv.ok /\ tsv.rows = <<>> /\ pc # "start") =>
        /\ pc \notin {"rejected", "threw"}
        /\ raw = <<>>
        /\ processed = <<>>
        /\ again = <<>>
        /\ nested = <<>>

\* the empty table has been loaded and the empty array processed, the
\* result fed back once more
C11_Witness ==
    /\ tsv.ok /\ tsv.rows = <<>>
    /\ pc = "nested"
    /\ raw = <<>> /\ processed = <<>> /\ nested = <<>>

\* C12: when d3.tsv fails (fetching or parsing the file), loadData catches
\* the failure and resolves with an empty array: the promise is not
\* rejected and no entry has been built.
C12_FetchFailureGivesEmpty ==
    (~tsv.ok /\ pc # "start") =>
        /\ pc # "rejected"
        /\ raw = <<>>
        /\ heap = <<>>

\* the fetch failed and loadData has resolved
C12_Witness ==
    /\ ~tsv.ok
    /\ pc = "loaded"
    /\ raw = <<>>

\* the (year, month) a row of a calendar table was written from
MonthOfRow(i) ==
    CHOOSE a \in CalendarMonths : MonthString(a[1], a[2]) = tsv.rows[i].month

\* months elapsed since the start of year 0
CalendarOrdinal(a) == 12 * a[1] + (a[2] - 1)

\* C13: the index (year - 2000) * 12 + month follows the calendar for months
\* 1..12: it is a whole number, two rows one calendar month apart (December
\* to January included) differ by exactly 1, a later month has a greater
\* index, and two different (year, month) pairs never share an index.
C13_IndexFollowsCalendar ==
    (pc = "loaded") =>
        \A i, j \in 1..Len(tsv.rows) :
            LET a  == MonthOfRow(i)
                b  == MonthOfRow(j)
                xi == heap[i].index
                xj == heap[j].index
            IN  /\ IsWhole(xi) /\ IsWhole(xj)
                /\ (CalendarOrdinal(b) = CalendarOrdinal(a) + 1) => Minus(xj, xi) = Num(1)
                /\ (CalendarOrdinal(a) < CalendarOrdinal(b)) => Lt(xi, xj)
                /\ (a # b) => xi # xj
                /\ IntOf(xj) - IntOf(xi) = CalendarOrdinal(b) - CalendarOrdinal(a)

\* December 1999 and January 2000 have been parsed: indices 0 and 1
C13_Witness ==
    /\ pc = "loaded"
    /\ tsv.rows[1].month = MonthString(1999, 12)
    /\ tsv.rows[2].month = MonthString(2000, 1)
    /\ heap[1].index = Num(0)
    /\ heap[2].index = Num(1)

\* array a is in ascending order of index
SortedByIndex(a) ==
    \A i, j \in 1..Len(a) : i < j => ~Lt(heap[a[j]].index, heap[a[i]].index)

\* the running totals of array a are taken along the order of a
RunningTotals(a) ==
    \A i \in 1..Len(a) :
        /\ heap[a[i]].sumDonated =
               Plus(IF i = 1 THEN Num(0) ELSE heap[a[i - 1]].sumDonated, heap[a[i]].donated)
        /\ heap[a[i]].sumNeeded =
               Plus(IF i = 1 THEN Num(0) ELSE heap[a[i - 1]].sumNeeded, heap[a[i]].needed)

\* C14 as stated: processEntries, given entries in any order, returns a new
\* array sorted ascending by index, with the running totals taken over that
\* sorted order.
C14_SortsUnorderedInput ==
    Called =>
        /\ Len(processed) = Len(raw)
        /\ Range(processed) \cap Range(raw) = {}
        /\ SortedByIndex(processed)
        /\ RunningTotals(processed)

\* C14 as amended: processEntries returns a new array of new objects that
\* keeps the order of its input (entry i of the output is the copy of entry
\* i of the input), with the running totals taken along that order; the
\* output is sorted ascending by index exactly when the input is.  The
\* chronological order is established by loadData, not by processEntries.
C14_KeepsInputOrder ==
    Called =>
        /\ Len(processed) = Len(raw)
        /\ Range(processed) \cap Range(raw) = {}
        /\ \A i \in 1..Len(raw) :
               /\ heap[processed[i]].index = heap[raw[i]].index
               /\ heap[processed[i]].donated = heap[raw[i]].donated
               /\ heap[processed[i]].needed = heap[raw[i]].needed
        /\ RunningTotals(processed)
        /\ SortedByIndex(processed) <=> SortedByIndex(raw)

\* March 2025 before January 2025 has been processed: the output keeps
\* that order, the totals run along it
C14_Witness ==
    /\ pc = "processed"
    /\ Len(raw) = 2
    /\ heap[raw[1]].index = Num(303) /\ heap[raw[2]].index = Num(301)
    /\ heap[processed[1]].index = Num(303) /\ heap[processed[2]].index = Num(301)
    /\ heap[processed[1]].sumDonated = Num(1000)
    /\ heap[processed[2]].sumDonated = Num(1800)

\* the three sample rows, in the order of the scenario
SampleTable ==
    <<Row(Str2025_01, Str1000, Str200, Str600),
      Row(Str2025_02, Str1000, Str0,   Str800),
      Row(Str2025_03, Str1000, Str100, Str900)>>

\* the sample table has been loaded and processed
SampleProcessed == tsv.ok /\ tsv.rows = SampleTable /\ pc = "processed"

\* what the scenario says of the amounts, the totals and the window
SampleSums ==
    /\ Len(processed) = 3
    /\ [i \in 1..3 |-> heap[processed[i]].donated] = <<Num(800), Num(800), Num(1000)>>
    /\ [i \in 1..3 |-> heap[processed[i]].sumDonated] = <<Num(800), Num(1600), Num(2600)>>
    /\ [i \in 1..3 |-> heap[processed[i]].sumNeeded] = <<Num(1000), Num(2000), Num(3000)>>
    /\ WindowPositions(processed) = {1, 2, 3}
    /\ \A i \in 1..3 : IsNumber(heap[processed[i]].sumProjectedDonations)

\* C15 as stated: in the sample scenario donated = [800, 800, 1000],
\* sumDonated = [800, 1600, 2600], sumNeeded = [1000, 2000, 3000], the window
\* is all three periods, every period has a projection and the first
\* projection equals 800.
C15_SampleFirstIs800 ==
    SampleProcessed =>
        /\ SampleSums
        /\ heap[processed[1]].sumProjectedDonations = Num(800)

\* C15 as amended: the same amounts, totals and window, every period has a
\* projection, and the first projection is 800 up to floating-point
\* rounding only: 5000/3 + 2600/3 * (301 - 302) evaluates to
\* 800.0000000000001, the double next above 800 (800 + 2^-43).
C15_SampleFirstIs800Rounded ==
    SampleProcessed =>
        /\ SampleSums
        /\ heap[processed[1]].sumProjectedDonations = Plus(Num(800), Exact(1, <<1>>, -43))
        /\ Gt(heap[processed[1]].sumProjectedDonations, Num(800))

\* the sample table has been processed and the first projection is the
\* double next above 800
C15_Witness ==
    /\ SampleProcessed
    /\ Len(processed) = 3
    /\ heap[processed[1]].sumProjectedDonations = [kind |-> "number", sign |-> 1,
                                                    m |-> <<1, 0, 0, 200>>, e |-> -43]
    /\ heap[processed[3]].sumDonated = Num(2600)

\* C16: the sort of loadData is stable: the array it returns holds every
\* row's entry once, and entries of the same index are in the order of their
\* rows (entry objects are allocated in row order, so a smaller reference is
\* an earlier row).
C16_StableSort ==
    (pc # "start" /\ tsv.ok) =>
        /\ Len(raw) = Len(tsv.rows)
        /\ Range(raw) = 1..Len(tsv.rows)
        /\ \A i, j \in 1..Len(raw) :
               (i < j /\ heap[raw[i]].index = heap[raw[j]].index) => raw[i] < raw[j]

\* March 2025 followed by two rows for February 2025 has been loaded: the
\* Februaries come first, in the order of their rows
C16_Witness ==
    /\ pc = "loaded"
    /\ Len(tsv.rows) = 3
    /\ tsv.rows[1].month = Str2025_03
    /\ tsv.rows[2] = Row(Str2025_02, Str1000, Str0, Str800)
    /\ tsv.rows[3] = Row(Str2025_02, Str1200, Str0, Str0)
    /\ raw = <<2, 3, 1>>

\* C17: loadData alone computes neither cumulative sums nor projections:
\* when it has returned, every entry has sumDonated = 0, sumNeeded = 0 and
\* no sumProjectedDonations, whatever its amounts; the sums and projections
\* appear with processEntries, on the entries it returns.
C17_LoadDataLeavesSumsUnset ==
    /\ (pc = "loaded") =>
           /\ DOMAIN heap = Range(raw)
           /\ \A r \in DOMAIN heap :
                  /\ heap[r].sumDonated = Num(0)
                  /\ heap[r].sumNeeded = Num(0)
                  /\ ~Defined(heap[r].sumProjectedDonations)
    /\ (pc # "start") =>
           \A r \in DOMAIN heap :
               (heap[r].sumDonated # Num(0) \/ heap[r].sumNeeded # Num(0)
                    \/ Defined(heap[r].sumProjectedDonations))
                   => r \in Range(processed) \cup Range(again) \cup Range(nested)

\* the sample rows have been loaded: amounts are there, sums are not
C17_Witness ==
    /\ pc = "loaded"
    /\ Len(raw) = 3
    /\ heap[raw[1]].donated = Num(800)
    /\ heap[raw[3]].needed = Num(1000)
    /\ \A i \in 1..3 : heap[raw[i]].sumDonated = Num(0) /\ heap[raw[i]].sumNeeded = Num(0)
    /\ \A i \in 1..3 : ~Defined(heap[raw[i]].sumProjectedDonations)

\* every amount of array a is a non-negative number
NonNegativeAmounts(a) ==
    \A i \in 1..Len(a) :
        Gte(heap[a[i]].donated, Num(0)) /\ Gte(heap[a[i]].needed, Num(0))

\* C18: when all amounts are non-negative, the cumulative sums of a
\* processed array never decrease along the array:
\* sumDonated[i] >= sumDonated[i-1] and sumNeeded[i] >= sumNeeded[i-1].
C18_SumsNonDecreasing ==
    \A a \in {processed, again, nested} :
        NonNegativeAmounts(a) =>
            \A i \in 2..Len(a) :
                /\ Gte(heap[a[i]].sumDonated, heap[a[i - 1]].sumDonated)
                /\ Gte(heap[a[i]].sumNeeded, heap[a[i - 1]].sumNeeded)

\* January 2025 (800 donated) and a February without donation have been
\* processed: sumDonated stays at 800, sumNeeded grows
C18_Witness ==
    /\ pc = "processed"
    /\ Len(processed) = 2
    /\ NonNegativeAmounts(processed)
    /\ heap[processed[1]].sumDonated = Num(800)
    /\ heap[processed[2]].sumDonated = Num(800)
    /\ heap[processed[1]].sumNeeded = Num(1000)
    /\ heap[processed[2]].sumNeeded = Num(2200)

\* s is a month "YYYY-MM" with MM in 01..12
WellFormedMonth(s) ==
    /\ s # Absent
    /\ Len(s) = 7
    /\ s[5] = "-"
    /\ \A i \in {1, 2, 3, 4, 6, 7} : s[i] \in DigitChars
    /\ 10 * DigitVal(s[6]) + DigitVal(s[7]) \in 1..12

\* s is an amount: digits, with at most one decimal point among them
WellFormedAmount(s) ==
    /\ s # Absent
    /\ \E i \in 1..Len(s) : s[i] \in DigitChars
    /\ \A i \in 1..Len(s) : s[i] \in DigitChars \cup {"."}
    /\ Cardinality({i \in 1..Len(s) : s[i] = "."}) <= 1

\* the row has a month that cannot be parsed or an amount that is no number
MalformedRow(row) ==
    \/ row.month # Absent /\ ~WellFormedMonth(row.month)
    \/ \E v \in {row.needed, row.pledged, row.received} :
           v # Absent /\ ~WellFormedAmount(v)

\* C19: a malformed row (unparseable month or non-numeric amount) aborts the
\* whole batch: loadData fails or returns nothing, and so returns no entry
\* with values derived from that row.
C19_MalformedRowAborts ==
    (tsv.ok /\ pc # "start" /\ \E i \in 1..Len(tsv.rows) : MalformedRow(tsv.rows[i])) =>
        (pc = "rejected" \/ raw = <<>>)

\* some row has no pledged column, and nothing else is wrong with the table
OnlyPledgedMissing ==
    /\ tsv.ok
    /\ \E i \in 1..Len(tsv.rows) : tsv.rows[i].pledged = Absent
    /\ \A i \in 1..Len(tsv.rows) :
           /\ WellFormedMonth(tsv.rows[i].month)
           /\ WellFormedAmount(tsv.rows[i].needed)
           /\ WellFormedAmount(tsv.rows[i].received)
           /\ tsv.rows[i].pledged = Absent \/ WellFormedAmount(tsv.rows[i].pledged)

\* C20: a row without pledged is parsed with pledged as 0: its donated
\* equals its received amount, and the cumulative sums computed later are
\* numbers.
C20_MissingPledgedIsZero ==
    (OnlyPledgedMissing /\ pc # "start") =>
        /\ pc # "rejected"
        /\ \A i \in 1..Len(tsv.rows) :
               tsv.rows[i].pledged = Absent =>
                   /\ heap[i].pledged = Num(0)
                   /\ IsNumber(heap[i].donated)
                   /\ heap[i].donated = heap[i].received
        /\ \A a \in {processed, again, nested} :
               \A i \in 1..Len(a) :
                   IsNumber(heap[a[i]].sumDonated) /\ IsNumber(heap[a[i]].sumNeeded)

\* C21: the single-pass loadData does not throw on an empty or tiny
\* dataset: given zero rows, or rows none of which has a donation, the
\* promise resolves with one entry per row, none of them with a
\* projection.
C21_SinglePassNeverThrows ==
    (pc # "start" /\ tsv.ok
        /\ \A i \in 1..Len(tsv.rows) :
               ~hasDonationSinglePass(parseFloat(ToStr(tsv.rows[i].received)),
                                      parseFloat(ToStr(tsv.rows[i].pledged))))
    => /\ pc = "loaded"
       /\ Len(raw) = Len(tsv.rows)
       /\ \A i \in 1..Len(raw) : ~Defined(heap[raw[i]].sumProjectedDonations)

\* C22: in the single-pass loadData hasDonation is set from received or
\* pledged: an entry has hasDonation exactly when its received or its
\* pledged is greater than 0, so a row with received = 0 and pledged > 0
\* gets true and a row with both 0 gets false.
C22_SinglePassHasDonation ==
    (pc # "start" /\ tsv.ok)
    => \A i \in 1..Len(heap) :
           heap[i].hasDonation
               <=> (Gt(heap[i].received, Num(0)) \/ Gt(heap[i].pledged, Num(0)))

\* C23: indexToLabel undoes the index on its month component: for every
\* row of year y and month m in 1..12, indexToLabel of the entry's index
\* (y - 2000) * 12 + m is the abbreviation of month m, so the tick of every
\* entry names the month of its row.
C23_LabelNamesTheMonth ==
    (pc = "loaded") =>
        \A i \in 1..Len(tsv.rows) :
            indexToLabel(heap[i].index) = monthLabels[MonthOfRow(i)[2]]

\* a December before the base year (index 0) and a January after it
\* (index 13) have been loaded: their ticks read Dec and Jan
C23_Witness ==
    /\ pc = "loaded"
    /\ tsv.rows[1].month = MonthString(1999, 12)
    /\ tsv.rows[2].month = MonthString(2001, 1)
    /\ heap[1].index = Num(0)
    /\ heap[2].index = Num(13)
    /\ indexToLabel(heap[1].index) = <<"D", "e", "c">>
    /\ indexToLabel(heap[2].index) = <<"J", "a", "n">>

\* C24: the projection chart draws on presence: in every chart drawn, the
\* dashed projected line goes through exactly the entries of the data whose
\* sumProjectedDonations is defined, in the data's order, an entry whose
\* projected value is 0 included.
C24_ProjectedSeriesIsTheDefined ==
    \A k \in 1..Len(projectionChart) :
        projectionChart[k].projected =
            SelectSeq(projectionChart[k].needed,
                      LAMBDA r : Defined(heap[r].sumProjectedDonations))

\* the years of the loaded entries
YearsPresent == {heap[raw[i]].year : i \in 1..Len(raw)}

\* selectedYear is a year of the data, the selector has one button per
\* distinct year, labelled with it, and exactly the button of selectedYear
\* is active; before any event selectedYear is the greatest year
SelectorFollowsSelectedYear ==
    /\ selectedYear \in YearsPresent
    /\ (events = 0) => \A y \in YearsPresent : Gte(selectedYear, y)
    /\ Len(selector) = Cardinality(YearsPresent)
    /\ \A y \in YearsPresent :
           Cardinality({b \in 1..Len(selector) : selector[b].year = y}) = 1
    /\ \A b \in 1..Len(selector) :
           /\ selector[b].textContent = NumberToString(selector[b].year)
           /\ selector[b].active <=> (selector[b].year = selectedYear)
    /\ Cardinality({b \in 1..Len(selector) : selector[b].active}) = 1

\* C25 as stated: on the running dashboard, whatever was loaded, selectedYear
\* starts as the greatest year of the data and is at all times one of its
\* years, with one button per year and exactly its own button active.
C25_SelectedYearIsAYear == (pc = "ready") => SelectorFollowsSelectedYear

\* C25, amended: the same, for data of at least one entry; with no entry
\* selectedYear is -Infinity and the selector is empty.
C25_SelectedYearIsAYearOfData ==
    (pc = "ready") =>
        IF raw # <<>> THEN SelectorFollowsSelectedYear
        ELSE selectedYear = NegInfinity /\ selector = <<>>

\* data of two years, the dashboard started on 2025, then 2024 was clicked
\* and the window resized: 2024 is selected and its button alone is active
C25_Witness ==
    /\ pc = "ready"
    /\ events = 2
    /\ event.type = "resize"
    /\ YearsPresent = {Num(2024), Num(2025)}
    /\ selectedYear = Num(2024)
    /\ Len(selector) = 2
    /\ selector[1].active /\ ~selector[2].active

\* the loaded entries of the selected year, in the order of allData
OfSelectedYear == SelectSeq(raw, LAMBDA r : heap[r].year = selectedYear)

\* entry object p carries the row data of entry object r
SameRowData(p, r) ==
    /\ heap[p].index = heap[r].index
    /\ heap[p].year = heap[r].year
    /\ heap[p].donated = heap[r].donated
    /\ heap[p].needed = heap[r].needed
    /\ heap[p].pledged = heap[r].pledged
    /\ heap[p].received = heap[r].received
    /\ heap[p].hasDonation = heap[r].hasDonation

\* C26: on the running dashboard, after any clicks and resizes, both chart
\* renderers were last handed the same array: one fresh entry per loaded
\* entry of the selected year and no other, in chronological order, with
\* running totals that start at that year's first entry and projections
\* from that year's window on; the loaded entries are as loadData made them
\* (no sums, no projection); and any two drawings of the same year show
\* equal entries.
C26_ChartsShowSelectedYear ==
    (pc = "ready") =>
        /\ columnChart[Len(columnChart)].needed = processed
        /\ projectionChart[Len(projectionChart)].needed = processed
        /\ Len(processed) = Len(OfSelectedYear)
        /\ \A k \in 1..Len(processed) : SameRowData(processed[k], OfSelectedYear[k])
        /\ Range(processed) \cap Range(raw) = {}
        /\ SortedByIndex(processed)
        /\ RunningTotals(processed)
        /\ \A k \in 1..Len(processed) :
               Defined(heap[processed[k]].sumProjectedDonations)
                   <=> /\ Bearing(processed) # {}
                       /\ Gte(heap[processed[k]].index,
                              heap[processed[WindowStart(processed)]].index)
        /\ \A i \in 1..Len(tsv.rows) : heap[i] = parseRow(tsv.rows[i])
        /\ \A j, k \in 1..Len(projectionChart) :
               LET a == projectionChart[j].needed
                   b == projectionChart[k].needed
               IN  (a # <<>> /\ b # <<>> /\ heap[a[1]].year = heap[b[1]].year)
                       => Deref(a) = Deref(b)

\* three entries of two years: the dashboard started on 2025, 2024 was
\* clicked, then 2025 again; the first and the third drawing show equal
\* entries in different objects, the totals of 2025 start at its first entry
C26_Witness ==
    /\ pc = "ready"
    /\ events = 2
    /\ Len(raw) = 3
    /\ selectedYear = Num(2025)
    /\ Len(projectionChart) = 3
    /\ Len(processed) = 2
    /\ heap[projectionChart[2].needed[1]].year = Num(2024)
    /\ projectionChart[1].needed # projectionChart[3].needed
    /\ Deref(projectionChart[1].needed) = Deref(projectionChart[3].needed)
    /\ heap[processed[1]].sumDonated = Num(100)
    /\ heap[processed[2]].sumDonated = Num(200)

\* C27: on the running dashboard, after any year selections and resizes,
\* each chart container holds exactly one SVG, the one drawn for the
\* selected year: earlier drawings do not pile up.
C27_OneChartPerContainer ==
    (pc = "ready") =>
        /\ Len(columnChart) = 1
        /\ Len(projectionChart) = 1
        /\ columnChart[1].needed = processed
        /\ projectionChart[1].needed = processed

\* a click event is being handled
ClickHandled == event'.type = "click" /\ events' = events + 1

\* C28: a click on the button of the selected year changes nothing
\* (selectedYear, the selector, the charts and the entry objects stay as
\* they are, and the handler calls nothing); a click on another year sets
\* selectedYear to that year, then renders the selector, then draws the
\* charts, in that order: the selector marks the new year and each
\* container receives one chart of the new year.
C28_ClickSameYearIsNoOp ==
    [][ClickHandled =>
          IF event'.year = selectedYear
          THEN /\ effects' = <<>>
               /\ UNCHANGED <<selectedYear, selector, columnChart, projectionChart,
                              heap, processed, years, raw, pc>>
          ELSE /\ effects' = <<"selectedYear", "renderYearSelector", "drawCharts">>
               /\ selectedYear' = event'.year
               /\ \A b \in 1..Len(selector') :
                      selector'[b].active <=> (selector'[b].year = event'.year)
               /\ Len(columnChart') = Len(columnChart) + 1
               /\ Len(projectionChart') = Len(projectionChart) + 1
               /\ \A r \in Range(processed') : heap'[r].year = event'.year
               /\ processed' # <<>>]_vars

\* data of 2024 and 2025: the dashboard started on 2025, 2024 was clicked
\* (selector rendered, charts drawn a second time), then 2024 was clicked
\* again and nothing was done
C28_Witness ==
    /\ pc = "ready"
    /\ events = 2
    /\ event = [type |-> "click", year |-> Num(2024)]
    /\ effects = <<>>
    /\ selectedYear = Num(2024)
    /\ Num(2025) \in YearsPresent
    /\ Len(columnChart) = 2
    /\ \E b \in 1..Len(selector) : selector[b].active /\ selector[b].year = Num(2024)

\* C30: when loadData yields no entries, the start of the dashboard does not
\* throw: it ends with no button in the selector, and every chart drawn,
\* at the start and at later resizes, is drawn from an empty array, the
\* projection chart without a shortfall annotation.
C30_EmptyDataStartsUp ==
    (raw = <<>> /\ pc \in {"ready", "threw"}) =>
        /\ pc = "ready"
        /\ selector = <<>>
        /\ Len(columnChart) >= 1
        /\ Len(projectionChart) = Len(columnChart)
        /\ \A k \in 1..Len(columnChart) :
               /\ columnChart[k].needed = <<>>
               /\ columnChart[k].received = <<>>
               /\ columnChart[k].pledged = <<>>
        /\ \A k \in 1..Len(projectionChart) :
               /\ projectionChart[k].needed = <<>>
               /\ projectionChart[k].projected = <<>>
               /\ ~Defined(projectionChart[k].shortfall)

\* the fetch failed, loadData resolved with [], and the dashboard has
\* started: one empty chart in each container
C30_Witness ==
    /\ ~tsv.ok
    /\ pc = "ready"
    /\ events = 0
    /\ effects = <<"renderYearSelector", "drawCharts">>
    /\ Len(columnChart) = 1
    /\ Len(projectionChart) = 1
    /\ selectedYear = NegInfinity

\* position in array a of the last entry with a donation
AnchorPosition(a) == CHOOSE i \in Bearing(a) : \A j \in Bearing(a) : j <= i

\* the mean of donated over the last three entries of a with a donation
WindowMean(a) ==
    avgDonated(heap, SelectSeq(a, LAMBDA r :
                   \E i \in WindowPositions(a) : a[i] = r))

\* C29: in the loadData anchored at the last donation, given amounts that
\* are not negative and at least one entry with a donation, an entry has a
\* projection exactly when its column is at or after the column of the
\* last entry with a donation (the anchor); the anchor's projection is its
\* own sumDonated; and the projection of every entry after the anchor is
\* anchor.sumDonated + avgDonated * (column - anchor.column).
C29_AnchoredAtLastDonation ==
    (pc = "loaded" /\ Bearing(raw) # {}) =>
        LET k      == AnchorPosition(raw)
            anchor == heap[raw[k]]
            avg    == WindowMean(raw)
        IN  /\ \A i \in 1..Len(raw) :
                   Defined(heap[raw[i]].sumProjectedDonations)
                       <=> Gte(heap[raw[i]].column, anchor.column)
            /\ anchor.sumProjectedDonations = anchor.sumDonated
            /\ \A i \in (k + 1)..Len(raw) :
                   heap[raw[i]].sumProjectedDonations =
                       Plus(anchor.sumDonated,
                            Times(avg, Minus(heap[raw[i]].column, anchor.column)))

\* December 50, January 100, then April without donation: the anchor is
\* January with 150, and April is projected at 150 + 75 * 3 = 375
C29_Witness ==
    /\ pc = "loaded"
    /\ Len(raw) = 3
    /\ Bearing(raw) = {1, 2}
    /\ heap[raw[2]].sumDonated = Num(150)
    /\ heap[raw[2]].sumProjectedDonations = Num(150)
    /\ ~Defined(heap[raw[1]].sumProjectedDonations)
    /\ heap[raw[3]].donated = Num(0)
    /\ heap[raw[3]].sumProjectedDonations = Num(375)

====
